---- MODULE Spec2Model ----
(***************************************************************************)
(* paper_auto: the crawl pipeline (crawler.py), the translation pass       *)
(* (main.py run_translate), the rate limiter (utils.py) and the article    *)
(* store (db.py), as one state machine.                                    *)
(*                                                                         *)
(* Texts are sequences of one-character strings; Python's None is the      *)
(* value None below, the empty string is << >>.  Article URLs are natural  *)
(* numbers whose order is the lexicographic order of the URL strings.      *)
(* Time is counted in ticks of 1/TicksPerSec seconds; only differences     *)
(* now - _last smaller than the limiter's interval are ever looked at, so  *)
(* the elapsed time is kept saturated at that interval.                    *)
(***************************************************************************)
EXTENDS Naturals, Integers, Sequences, FiniteSets, TLC

VARIABLES
    cmd,            \* main.py:150-155  the sub-command of this run
    cfg,            \* CrawlConfig / argparse namespace
    web,            \* the site: next-page link of every listing page
    db,             \* table articles, rows in id order
    pc,             \* position of the main coroutine and of every unit task
    sem,            \* asyncio.Semaphore._value
    semHeld,        \* tasks inside "async with sem"
    lim_lock,       \* RateLimiter._lock holder
    lim_elapsed,    \* time.monotonic() - RateLimiter._last, saturated
    sleep_left,     \* remaining asyncio.sleep of every task
    granted,        \* tasks whose limiter.wait() returned for the request in flight
    sinceGrant,     \* time since the latest return of limiter.wait(), saturated
    seen_pages,     \* crawl: seen_pages
    page_url,       \* crawl: page_url
    page_count,     \* crawl: page_count
    total_articles, \* crawl: total_articles
    article_urls,   \* crawl: article_urls of the page being processed
    listFetched,    \* number of GETs issued per listing page
    artFetched,     \* units of the current page that issued a GET
    rows,           \* translate: rows[:total]
    db_lock,        \* translate: db_lock holder
    cached,         \* translate: process_row's local "cached"
    zh,             \* translate: process_row's local "zh"
    progress,       \* translate: progress["done"]
    writes,         \* translate: calls of update_translation per unit in this run
    remoteCalls,    \* units that invoked the remote translation
    everSkipped,    \* crawl: some unit was skipped by resume
    halt,           \* why the main coroutine ended
    lastItem,       \* the item of the latest upsert_article
    ops,            \* number of upserts applied (store specification)
    repeated,       \* the latest upsert applied the same item as the one before
    doc,            \* extractors.py: the article page handed to extract_fields
    extracted       \* extractors.py: what extract_fields returned for doc

vars == << cmd, cfg, web, db, pc, sem, semHeld, lim_lock, lim_elapsed, sleep_left,
           granted, sinceGrant, seen_pages, page_url, page_count, total_articles,
           article_urls, listFetched, artFetched, rows, db_lock, cached, zh,
           progress, writes, remoteCalls, everSkipped, halt,
           lastItem, ops, repeated, doc, extracted >>

-----------------------------------------------------------------------------
(* Bounds, and the names of the fixed site the runs work on *)

TicksPerSec == 2
MaxOps == 3

Urls == {1, 2, 3}
Pages == {"p1", "p2", "p3"}
NoPage == "none"
Main == 0
Tasks == {Main} \cup Urls
NoTask == -1

None == << "None" >>
Falsy(s) == s = None \/ s = << >>

Max(a, b) == IF a >= b THEN a ELSE b
Min(a, b) == IF a <= b THEN a ELSE b

-----------------------------------------------------------------------------
(* utils.py *)

IsSpace(c) == c \in {" ", "\n"}

RECURSIVE WordLen(_)
WordLen(s) ==
    IF s = << >> \/ IsSpace(Head(s)) THEN 0 ELSE 1 + WordLen(Tail(s))

\* str.split(): the maximal runs of non-whitespace characters
RECURSIVE split(_)
split(s) ==
    IF s = << >> THEN << >>
    ELSE IF IsSpace(Head(s)) THEN split(Tail(s))
    ELSE LET n == WordLen(s)
         IN  << SubSeq(s, 1, n) >> \o split(SubSeq(s, n + 1, Len(s)))

\* " ".join(words)
RECURSIVE join(_)
join(ws) ==
    IF ws = << >> THEN << >>
    ELSE IF Len(ws) = 1 THEN ws[1]
    ELSE ws[1] \o << " " >> \o join(Tail(ws))

clean_text(s) ==
    IF s = None THEN None
    ELSE LET t == join(split(s)) IN IF t = << >> THEN None ELSE t

sha256_text(t) == << "sha256" >> \o t

\* datetime.now(timezone.utc).isoformat(): the wall clock read at the call,
\* << "t", "1" >> in an earlier run and << "t", "2" >> in the present one
NowIso == IF cmd = "store" THEN { << "t", "1" >>, << "t", "2" >> }
          ELSE { << "t", "2" >> }

min_interval(rate) == IF rate <= 0 THEN 0 ELSE TicksPerSec \div rate

-----------------------------------------------------------------------------
(* db.py *)

Cols == { "search_url", "title", "journal", "published_date", "abstract_en",
          "abstract_zh", "abstract_en_hash", "crawled_at", "translated_at" }

RowIdx(d, url) == { i \in 1 .. Len(d) : d[i].article_url = url }

\* mutant: the query without its abstract_en conditions
has_abstract_en_AnyRow(d, url) == RowIdx(d, url) # {}

has_abstract_en(d, url) ==
    \E i \in RowIdx(d, url) : d[i].abstract_en # None /\ d[i].abstract_en # << >>

\* mutant: plain assignment of the incoming value
COALESCE_Overwrite(x, y) == x

COALESCE(x, y) == IF x # None THEN x ELSE y

\* item.get(c) for every column: a missing key is None
ItemData(item) ==
    [ c \in Cols \cup {"article_url"} |->
        IF c \in DOMAIN item THEN item[c] ELSE None ]

MergeRow(old, data) ==
    [ c \in Cols \cup {"article_url"} |->
        IF c = "article_url" THEN old.article_url
        ELSE COALESCE(data[c], old[c]) ]

\* mutant: INSERT without the ON CONFLICT clause taking effect
upsert_article_Insert(d, item) == Append(d, ItemData(item))

upsert_article(d, item) ==
    LET data == ItemData(item)
        hit  == RowIdx(d, data.article_url)
    IN  IF hit = {}
        THEN Append(d, data)
        ELSE [ i \in 1 .. Len(d) |-> IF i \in hit THEN MergeRow(d[i], data) ELSE d[i] ]

Pending(r) ==
    /\ r.abstract_en # None /\ r.abstract_en # << >>
    /\ (r.abstract_zh = None \/ r.abstract_zh = << >>)

get_pending_translations(d, limit) ==
    LET all == SelectSeq(d, Pending)
    IN  IF limit > 0 THEN SubSeq(all, 1, Min(limit, Len(all))) ELSE all

\* mutant: the lookup never finds a row
get_cached_translation_Miss(d, h) == { None }

\* LIMIT 1 without ORDER BY: any matching row may be the one returned, so this is
\* the set of values the call can return
get_cached_translation(d, h) ==
    LET hit == { i \in 1 .. Len(d) :
                   /\ d[i].abstract_en_hash = h
                   /\ d[i].abstract_zh # None /\ d[i].abstract_zh # << >> }
    IN  IF hit = {} THEN { None } ELSE { d[i].abstract_zh : i \in hit }

\* mutant: the UPDATE without its WHERE clause
update_translation_NoWhere(d, url, text, at) ==
    [ i \in 1 .. Len(d) |-> [ d[i] EXCEPT !.abstract_zh = text, !.translated_at = at ] ]

update_translation(d, url, text, at) ==
    [ i \in 1 .. Len(d) |->
        IF d[i].article_url = url
        THEN [ d[i] EXCEPT !.abstract_zh = text, !.translated_at = at ]
        ELSE d[i] ]

-----------------------------------------------------------------------------
(* extractors.py, generic site family.  A fetched article page is a record of
   the places the extractor reads: the fields of the JSON-LD object picked by
   _pick_article_jsonld (the ld_ slots), the page <title>, the <meta> tags, and the
   paragraphs after the first heading containing "abstract" (dom_paras;
   dom_heading tells whether there is such a heading). *)

Or(a, b) == IF Falsy(a) THEN b ELSE a

HtmlSlots == { "ld_headline", "ld_name", "ld_isPartOf_name", "ld_datePublished",
               "ld_dateCreated", "ld_abstract", "ld_description", "page_title",
               "citation_title", "citation_journal_title", "article_published_time",
               "citation_publication_date", "citation_abstract", "dc_description",
               "og_description", "description" }

BlankHtml == [ s \in HtmlSlots |-> None ] @@ [ dom_heading |-> FALSE, dom_paras |-> << >> ]

RECURSIVE CleanParts(_)
CleanParts(ps) ==
    IF ps = << >> THEN << >>
    ELSE LET txt == clean_text(Head(ps))
         IN  IF Falsy(txt) THEN CleanParts(Tail(ps))
             ELSE << txt >> \o CleanParts(Tail(ps))

extract_meta_abstract(h) ==
    LET v1 == clean_text(h.dc_description)
        v2 == clean_text(h.og_description)
        v3 == clean_text(h.description)
    IN  IF ~Falsy(h.dc_description) /\ ~Falsy(v1) THEN v1
        ELSE IF ~Falsy(h.og_description) /\ ~Falsy(v2) THEN v2
        ELSE IF ~Falsy(h.description) /\ ~Falsy(v3) THEN v3
        ELSE None

extract_dom_abstract(h) ==
    IF ~h.dom_heading THEN None
    ELSE clean_text(join(CleanParts(h.dom_paras)))

extract_title(h) ==
    LET t1 == clean_text(Or(Or(h.ld_headline, h.ld_name), h.page_title))
    IN  IF Falsy(t1) THEN clean_text(h.citation_title) ELSE t1

extract_journal(h) ==
    LET j1 == clean_text(h.ld_isPartOf_name)
    IN  IF Falsy(j1) THEN clean_text(h.citation_journal_title) ELSE j1

extract_published_date(h) ==
    LET d1 == clean_text(Or(h.ld_datePublished, h.ld_dateCreated))
        d2 == IF Falsy(d1) THEN clean_text(h.article_published_time) ELSE d1
    IN  IF Falsy(d2) THEN clean_text(h.citation_publication_date) ELSE d2

\* mutant: the declared-metadata stage tried before the structured data
extract_abstract_MetaFirst(h) ==
    LET a1 == clean_text(h.citation_abstract)
        a2 == IF Falsy(a1) THEN extract_meta_abstract(h) ELSE a1
        a3 == IF Falsy(a2) THEN clean_text(Or(h.ld_abstract, h.ld_description)) ELSE a2
    IN  IF Falsy(a3) THEN extract_dom_abstract(h) ELSE a3

extract_abstract(h) ==
    LET a1 == clean_text(Or(h.ld_abstract, h.ld_description))
        a2 == IF Falsy(a1) THEN clean_text(h.citation_abstract) ELSE a1
        a3 == IF Falsy(a2) THEN extract_meta_abstract(h) ELSE a2
    IN  IF Falsy(a3) THEN extract_dom_abstract(h) ELSE a3

extract_fields(h) ==
    [ title |-> extract_title(h),
      journal |-> extract_journal(h),
      published_date |-> extract_published_date(h),
      abstract_en |-> extract_abstract(h) ]

-----------------------------------------------------------------------------
(* The site the crawl runs against.  Every article is of the generic family
   (_is_cvf_openaccess is false for its host). *)

\* hrefs of the article links of a listing page, in document order
PageHrefs(p) ==
    CASE p = "p1" -> << 2, 1, 3, 1 >>
      [] p = "p2" -> << 3, 1 >>
      [] OTHER    -> << >>

RECURSIVE sorted(_)
sorted(S) ==
    IF S = {} THEN << >>
    ELSE LET m == CHOOSE x \in S : \A y \in S : x <= y
         IN  << m >> \o sorted(S \ {m})

Range(q) == { q[i] : i \in DOMAIN q }

parse_article_links(p) == sorted(Range(PageHrefs(p)))

find_next_page_url(p) == web[p]

Webs ==
    { [ p1 |-> "p2",   p2 |-> "p3",   p3 |-> NoPage ],
      [ p1 |-> "p2",   p2 |-> "p3",   p3 |-> "p1" ],
      [ p1 |-> "p2",   p2 |-> "p2",   p3 |-> NoPage ] }

\* the documents a GET of an article URL can return
ArticleHtmls(u) ==
    CASE u = 1 -> { [ BlankHtml EXCEPT !.ld_headline = << "t" >>,
                                       !.ld_abstract = << " ", "a", " " >> ] }
      [] u = 2 -> { [ BlankHtml EXCEPT !.page_title = << "u" >>,
                                       !.citation_journal_title = << "j" >>,
                                       !.citation_abstract = << "a" >> ] }
      [] OTHER -> { [ BlankHtml EXCEPT !.page_title = << " " >>,
                                       !.dom_heading = TRUE,
                                       !.dom_paras = << << "b" >>, << " " >> >> ],
                    [ BlankHtml EXCEPT !.citation_title = << "v" >> ] }

\* the texts the remote translation of text can return: (content or "").strip().
\* The model is free in its wording ("x" or "y") and may return nothing; a
\* translation is written as its wording followed by the text it renders.
RemoteOut(text) == { << >>, << "x" >> \o text, << "y" >> \o text }

-----------------------------------------------------------------------------
(* Configurations *)

CrawlCfgs ==
    [ search_url : {"p1"}, max_pages : {0, 2}, limit_articles : {0, 2},
      concurrency : {0, 2}, rate : {0, 1}, resume : BOOLEAN, max_items : {0} ]

TranslateCfgs ==
    [ search_url : {NoPage}, max_pages : {0}, limit_articles : {0},
      concurrency : {0, 2}, rate : {0, 1}, resume : {FALSE}, max_items : {0, 1} ]

SemInit(concurrency) == Max(1, concurrency)

MinInterval == min_interval(cfg.rate)

\* mutant: the hash taken of the abstract as extracted, before normalisation
ArticleItem_HashRaw(url, search_url, fields, at) ==
    LET abstract_en == clean_text(fields.abstract_en)
    IN  [ article_url      |-> url,
          search_url       |-> << search_url >>,
          title            |-> clean_text(fields.title),
          journal          |-> clean_text(fields.journal),
          published_date   |-> clean_text(fields.published_date),
          abstract_en      |-> abstract_en,
          abstract_en_hash |-> IF Falsy(abstract_en) THEN None
                               ELSE sha256_text(fields.abstract_en),
          crawled_at       |-> at ]

\* crawler.py:143-153: the record handle_article builds from the extracted fields
ArticleItem(url, search_url, fields, at) ==
    LET abstract_en == clean_text(fields.abstract_en)
    IN  [ article_url      |-> url,
          search_url       |-> << search_url >>,
          title            |-> clean_text(fields.title),
          journal          |-> clean_text(fields.journal),
          published_date   |-> clean_text(fields.published_date),
          abstract_en      |-> abstract_en,
          abstract_en_hash |-> IF Falsy(abstract_en) THEN None
                               ELSE sha256_text(abstract_en),
          crawled_at       |-> at ]

\* the stores an earlier crawl of some of the articles leaves behind
RECURSIVE CrawledStores(_)
CrawledStores(n) ==
    IF n = 0 THEN { << >> }
    ELSE LET prev == CrawledStores(n - 1)
         IN  prev \cup
             { upsert_article(d, ArticleItem(n, "p1", extract_fields(h), << "t", "1" >>)) :
                 d \in prev, h \in ArticleHtmls(n) }

-----------------------------------------------------------------------------
(* Variable groups *)

constVars == << cmd, cfg, web >>
semVars   == << sem, semHeld >>
limVars   == << lim_lock, lim_elapsed, sleep_left >>
reqVars   == << listFetched, artFetched, remoteCalls >>
crawlVars == << seen_pages, page_url, page_count, total_articles, article_urls,
                everSkipped >>
trVars    == << rows, db_lock, cached, zh, progress, writes >>
storeVars == << lastItem, ops, repeated >>
extractVars == << doc, extracted >>

Units == { u \in Urls : pc[u] # "idle" }
Ended == pc[Main] \in {"done", "crashed"}

-----------------------------------------------------------------------------
(* utils.py RateLimiter.wait, as far as the first suspension.  base and g are
   pc and granted as the calling step leaves them; url is the listing page
   the main coroutine is about to request. *)

\* the request that follows the return of wait(): client.get / the remote call
Request(t, url) ==
    /\ listFetched' = IF t = Main THEN [ listFetched EXCEPT ![url] = @ + 1 ]
                      ELSE listFetched
    /\ artFetched' = IF t = Main THEN {}
                     ELSE IF cmd = "crawl" THEN artFetched \cup {t} ELSE artFetched
    /\ remoteCalls' = IF cmd = "translate" THEN remoteCalls \cup {t} ELSE remoteCalls

Granted(t, base, g, url) ==
    /\ pc' = [ base EXCEPT ![t] = "fetching" ]
    /\ granted' = g \cup {t}
    /\ sinceGrant' = 0
    /\ Request(t, url)

\* mutant: wait() without its lock
LockBusy_Never(lock) == FALSE

LockBusy(lock) == lock # NoTask

sleep_s(interval, elapsed) == interval - elapsed

LimiterLocked(t, base, g, url) ==
    LET s == sleep_s(MinInterval, lim_elapsed)
    IN  IF s > 0
        THEN /\ lim_lock' = t
             /\ sleep_left' = [ sleep_left EXCEPT ![t] = s ]
             /\ pc' = [ base EXCEPT ![t] = "sleeping" ]
             /\ granted' = g
             /\ UNCHANGED << lim_elapsed, sinceGrant, reqVars >>
        ELSE /\ lim_elapsed' = 0
             /\ Granted(t, base, g, url)
             /\ UNCHANGED << lim_lock, sleep_left >>

LimiterEnter(t, base, g, url) ==
    IF MinInterval <= 0
    THEN Granted(t, base, g, url) /\ UNCHANGED limVars
    ELSE IF LockBusy(lim_lock)
    THEN /\ pc' = [ base EXCEPT ![t] = "wait_lim" ]
         /\ granted' = g
         /\ UNCHANGED << limVars, sinceGrant, reqVars >>
    ELSE LimiterLocked(t, base, g, url)

\* a task waiting for RateLimiter._lock gets it
LimWake(t) ==
    /\ ~Ended
    /\ pc[t] = "wait_lim"
    /\ ~LockBusy(lim_lock)
    /\ LimiterLocked(t, pc, granted, page_url)
    /\ UNCHANGED << constVars, extractVars, storeVars, db, semVars, crawlVars, trVars, halt >>

\* asyncio.sleep(sleep_s) is over: _last = time.monotonic(), the lock is released
SleepDone(t) ==
    /\ ~Ended
    /\ pc[t] = "sleeping"
    /\ sleep_left[t] = 0
    /\ lim_elapsed' = 0
    /\ lim_lock' = NoTask
    /\ Granted(t, pc, granted, page_url)
    /\ UNCHANGED << constVars, extractVars, storeVars, db, semVars, sleep_left, crawlVars, trVars, halt >>

\* time passes by one tick
Tick ==
    /\ ~Ended
    /\ pc[Main] # "init"
    /\ MinInterval > 0
    /\ \/ lim_elapsed < MinInterval
       \/ sinceGrant < MinInterval
       \/ \E t \in Tasks : sleep_left[t] > 0
    /\ lim_elapsed' = Min(MinInterval, lim_elapsed + 1)
    /\ sinceGrant' = Min(MinInterval, sinceGrant + 1)
    /\ sleep_left' = [ t \in Tasks |-> Max(0, sleep_left[t] - 1) ]
    /\ UNCHANGED << constVars, extractVars, storeVars, db, pc, semVars, lim_lock, granted, reqVars,
                    crawlVars, trVars, halt >>

-----------------------------------------------------------------------------
(* "async with sem", then limiter.wait() *)

\* mutant: acquire admits one unit too many
SemFree_OffByOne(value) == value >= 0

SemFree(value) == value > 0

\* mutant: the permit is not given back
sem_release_Lost(value) == value

\* the exit of "async with sem": Semaphore.release
sem_release(value) == value + 1

\* mutant: the fetch outside "async with sem"
SemEnter_NoSem(u) ==
    /\ LimiterEnter(u, pc, granted, page_url)
    /\ UNCHANGED semVars

SemEnter(u) ==
    IF SemFree(sem)
    THEN /\ sem' = sem - 1
         /\ semHeld' = semHeld \cup {u}
         /\ LimiterEnter(u, pc, granted, page_url)
    ELSE /\ pc' = [ pc EXCEPT ![u] = "wait_sem" ]
         /\ UNCHANGED << semVars, limVars, granted, sinceGrant, reqVars >>

\* a task waiting for the semaphore gets it
SemWake(u) ==
    /\ ~Ended
    /\ pc[u] = "wait_sem"
    /\ SemFree(sem)
    /\ SemEnter(u)
    /\ UNCHANGED << constVars, extractVars, storeVars, db, crawlVars, trVars, halt >>

-----------------------------------------------------------------------------
(* crawler.py crawl: the page loop *)

Finish(base, g, why) ==
    /\ pc' = [ base EXCEPT ![Main] = "done" ]
    /\ halt' = why
    /\ granted' = g
    /\ UNCHANGED << limVars, sinceGrant, reqVars >>

\* mutant: the test made one page late
PageLimitHit_Late(max_pages, count) == max_pages > 0 /\ count > max_pages + 1

PageLimitHit(max_pages, count) == max_pages > 0 /\ count > max_pages

\* mutant: no URL is ever found in seen_pages
AlreadySeen_Never(url, seen) == FALSE

\* mutant: the starting URL is not remembered
AlreadySeen_NotStart(url, seen) == url \in seen \ {cfg.search_url}

AlreadySeen(url, seen) == url \in seen

\* crawler.py:159-169: one pass over the head of the while loop, from the test of
\* page_url to the call of _fetch
LoopIter(url, base, g) ==
    /\ page_url' = url
    /\ IF url = NoPage
       THEN Finish(base, g, "no_next") /\ UNCHANGED << seen_pages, page_count >>
       ELSE IF AlreadySeen(url, seen_pages)
       THEN Finish(base, g, "cycle") /\ UNCHANGED << seen_pages, page_count >>
       ELSE /\ seen_pages' = seen_pages \cup {url}
            /\ page_count' = page_count + 1
            /\ IF PageLimitHit(cfg.max_pages, page_count + 1)
               THEN Finish(base, g, "max_pages")
               ELSE halt' = halt /\ LimiterEnter(Main, base, g, url)

CrawlStart ==
    /\ cmd = "crawl"
    /\ pc[Main] = "init"
    /\ LoopIter(cfg.search_url, pc, granted)
    /\ UNCHANGED << constVars, extractVars, storeVars, db, semVars, total_articles, article_urls,
                    everSkipped, trVars >>

\* mutant: the quota not reduced by what the run has persisted
Remain_NoCount(limit, total) == limit

\* crawler.py:172-176
Remain(limit, total) == limit - total

Truncate(urls, remain) == SubSeq(urls, 1, Min(remain, Len(urls)))

\* mutant: the body of the error response is parsed and its units dispatched
ListingError_ParseAnyway ==
    /\ pc' = [ t \in Tasks |->
                 IF t \in Range(parse_article_links(page_url)) THEN "start"
                 ELSE IF t = Main THEN "gather" ELSE "idle" ]
    /\ halt' = "listing_error"
    /\ granted' = granted \ {Main}
    /\ UNCHANGED << limVars, sinceGrant, reqVars, seen_pages, page_url,
                    page_count, article_urls >>

\* crawler.py:60 and 169: raise_for_status / a network error in the listing
\* fetch: the exception leaves crawl
ListingError ==
    /\ pc' = [ pc EXCEPT ![Main] = "crashed" ]
    /\ halt' = "listing_error"
    /\ granted' = granted \ {Main}
    /\ UNCHANGED << limVars, sinceGrant, reqVars, seen_pages, page_url,
                    page_count, article_urls >>

\* crawler.py:169-200: the GET of the listing page returns
ListingResponse ==
    /\ cmd = "crawl"
    /\ pc[Main] = "fetching"
    /\ UNCHANGED << constVars, extractVars, storeVars, db, semVars, total_articles, everSkipped, trVars >>
    /\ \/ ListingError
       \/ LET links  == parse_article_links(page_url)
              remain == Remain(cfg.limit_articles, total_articles)
              urls   == IF cfg.limit_articles > 0 THEN Truncate(links, remain)
                        ELSE links
              tasks  == [ t \in Tasks |->
                            IF t \in Range(urls) THEN "start"
                            ELSE IF t = Main THEN "gather" ELSE "idle" ]
          IN  IF cfg.limit_articles > 0 /\ remain <= 0
              THEN /\ Finish(pc, granted \ {Main}, "quota")
                   /\ UNCHANGED << seen_pages, page_url, page_count, article_urls >>
              ELSE /\ article_urls' = urls
                   /\ IF urls = << >>
                      THEN LoopIter(find_next_page_url(page_url), tasks, granted \ {Main})
                      ELSE /\ pc' = tasks
                           /\ granted' = granted \ {Main}
                           /\ UNCHANGED << limVars, sinceGrant, reqVars, seen_pages,
                                           page_url, page_count, halt >>

\* crawler.py:126-133: a unit starts
HandleArticleStart(u) ==
    /\ cmd = "crawl"
    /\ ~Ended
    /\ pc[u] = "start"
    /\ UNCHANGED << constVars, extractVars, storeVars, db, seen_pages, page_url, page_count, total_articles,
                    article_urls, trVars, halt >>
    /\ IF cfg.resume /\ has_abstract_en(db, u)
       THEN /\ pc' = [ pc EXCEPT ![u] = "done" ]
            /\ everSkipped' = TRUE
            /\ UNCHANGED << semVars, limVars, granted, sinceGrant, reqVars >>
       ELSE /\ SemEnter(u)
            /\ UNCHANGED everSkipped

\* crawler.py:133-157: the GET of the article page returns
ArticleResponse(u) ==
    /\ cmd = "crawl"
    /\ ~Ended
    /\ pc[u] = "fetching"
    /\ sem' = sem_release(sem)
    /\ semHeld' = semHeld \ {u}
    /\ granted' = granted \ {u}
    /\ UNCHANGED << constVars, extractVars, storeVars, limVars, sinceGrant, reqVars, seen_pages, page_url,
                    page_count, article_urls, everSkipped, trVars, halt >>
    /\ \/ \* raise_for_status / a network error: the exception ends the task
          /\ pc' = [ pc EXCEPT ![u] = "failed" ]
          /\ UNCHANGED << db, total_articles >>
       \/ \E html \in ArticleHtmls(u), at \in NowIso :
            /\ db' = upsert_article(db,
                        ArticleItem(u, cfg.search_url, extract_fields(html), at))
            /\ total_articles' = total_articles + 1
            /\ pc' = [ pc EXCEPT ![u] = "done" ]

-----------------------------------------------------------------------------
(* asyncio.gather over the unit tasks, in crawl and in run_translate *)

\* mutant: the join returns as soon as one task has finished
gather_returns_First(p) == \E u \in Urls : p[u] = "done"

\* await asyncio.gather returns normally: every task it was given has finished
gather_returns(p) == \A u \in Urls : p[u] # "idle" => p[u] = "done"

\* every task has finished without an exception
GatherDone ==
    /\ pc[Main] = "gather"
    /\ gather_returns(pc)
    /\ UNCHANGED << constVars, extractVars, storeVars, db, semVars, total_articles, article_urls,
                    everSkipped, trVars >>
    /\ IF cmd = "crawl"
       THEN LoopIter(find_next_page_url(page_url), pc, granted)
       ELSE /\ Finish(pc, granted, "complete")
            /\ UNCHANGED << seen_pages, page_url, page_count >>

\* gather re-raises the first exception of a task: it leaves crawl / run_translate
\* and asyncio.run cancels the tasks that are still pending
GatherRaise ==
    /\ pc[Main] = "gather"
    /\ \E u \in Units : pc[u] = "failed"
    /\ pc' = [ t \in Tasks |->
                 IF t = Main THEN "crashed"
                 ELSE IF pc[t] \in {"idle", "done", "failed"} THEN pc[t]
                 ELSE "cancelled" ]
    /\ halt' = "unit_error"
    /\ UNCHANGED << constVars, extractVars, storeVars, db, semVars, limVars, granted, sinceGrant, reqVars,
                    crawlVars, trVars >>

-----------------------------------------------------------------------------
(* main.py run_translate *)

\* mutant: max_items not applied
SelectRows_All(d, max_items) == get_pending_translations(d, 0)

\* main.py:94-97 and 132: the rows that get a task
SelectRows(d, max_items) ==
    LET got   == get_pending_translations(d, IF max_items > 0 THEN max_items ELSE 0)
        total == IF max_items > 0 THEN Min(Len(got), max_items) ELSE Len(got)
    IN  SubSeq(got, 1, total)

RowOf(u) == rows[CHOOSE i \in 1 .. Len(rows) : rows[i].article_url = u]

TranslateStart ==
    /\ cmd = "translate"
    /\ pc[Main] = "init"
    /\ LET sel == SelectRows(db, cfg.max_items)
           ids == { sel[i].article_url : i \in 1 .. Len(sel) }
       IN  /\ rows' = sel
           /\ pc' = [ t \in Tasks |->
                        IF t \in ids THEN "start"
                        ELSE IF t # Main THEN "idle"
                        ELSE IF ids = {} THEN "done" ELSE "gather" ]
           /\ halt' = IF ids = {} THEN "complete" ELSE halt
    /\ UNCHANGED << constVars, extractVars, storeVars, db, semVars, limVars, granted, sinceGrant, reqVars,
                    crawlVars, db_lock, cached, zh, progress, writes >>

\* mutant: the lock kept by the unit after the block
db_lock_exit_Held(u) == u

\* main.py:110-111, 114-118, 126-130: the holder of db_lock when a unit leaves
\* an "async with db_lock" block; the block has no suspension inside, so it is
\* entered and left within one step
db_lock_exit(u) == NoTask

\* main.py:102-122: a unit starts: the cache lookup, then the cached branch or
\* the way to the remote call
ProcessRowStart(u) ==
    /\ cmd = "translate"
    /\ ~Ended
    /\ pc[u] = "start"
    /\ db_lock = NoTask
    /\ UNCHANGED << constVars, extractVars, storeVars, crawlVars, rows, zh, halt >>
    /\ LET r           == RowOf(u)
           abstract_en == Or(clean_text(r.abstract_en), << >>)
           h           == Or(r.abstract_en_hash, sha256_text(abstract_en))
       IN  IF Falsy(abstract_en)
           THEN /\ pc' = [ pc EXCEPT ![u] = "done" ]
                /\ UNCHANGED << db, semVars, limVars, granted, sinceGrant, reqVars,
                                db_lock, cached, progress, writes >>
           ELSE \E c \in get_cached_translation(db, h) :
                  /\ cached' = [ cached EXCEPT ![u] = c ]
                  /\ db_lock' = db_lock_exit(u)
                  /\ IF ~Falsy(c)
                     THEN /\ \E at \in NowIso : db' = update_translation(db, u, c, at)
                          /\ progress' = progress + 1
                          /\ writes' = [ writes EXCEPT ![u] = @ + 1 ]
                          /\ pc' = [ pc EXCEPT ![u] = "done" ]
                          /\ UNCHANGED << semVars, limVars, granted, sinceGrant,
                                          reqVars >>
                     ELSE /\ SemEnter(u)
                          /\ UNCHANGED << db, progress, writes >>

\* main.py:123-130: the remote call returns
RemoteResponse(u) ==
    /\ cmd = "translate"
    /\ ~Ended
    /\ pc[u] = "fetching"
    /\ sem' = sem_release(sem)
    /\ semHeld' = semHeld \ {u}
    /\ granted' = granted \ {u}
    /\ UNCHANGED << constVars, extractVars, storeVars, limVars, sinceGrant, reqVars, crawlVars, rows,
                    cached, halt >>
    /\ \/ \* the call raises: the exception ends the task
          /\ pc' = [ pc EXCEPT ![u] = "failed" ]
          /\ UNCHANGED << db, db_lock, zh, progress, writes >>
       \/ /\ db_lock = NoTask
          /\ db_lock' = db_lock_exit(u)
          /\ writes' = [ writes EXCEPT ![u] = @ + 1 ]
          /\ \E out \in RemoteOut(Or(clean_text(RowOf(u).abstract_en), << >>)),
                at \in NowIso :
               LET text == Or(clean_text(out), out)
               IN  /\ zh' = [ zh EXCEPT ![u] = text ]
                   /\ db' = update_translation(db, u, text, at)
          /\ progress' = progress + 1
          /\ pc' = [ pc EXCEPT ![u] = "done" ]

-----------------------------------------------------------------------------
(* The program *)

\* the stores an earlier translation pass can have left: one row translated
TranslatedStores(d) ==
    {d} \cup { update_translation(d, d[i].article_url, << "x" >> \o d[i].abstract_en,
                                   << "t", "1" >>) :
                 i \in { j \in 1 .. Len(d) : Pending(d[j]) } }

NoItem == [ article_url |-> 0 ]

\* extract_fields has not been called
NoFields == [ title |-> None, journal |-> None, published_date |-> None,
             abstract_en |-> None, called |-> FALSE ]

\* the state of a run before its first step, for configuration c
InitRun(c) ==
    /\ pc = [ t \in Tasks |-> IF t = Main THEN "init" ELSE "idle" ]
    /\ sem = SemInit(c.concurrency)
    /\ semHeld = {}
    /\ lim_lock = NoTask
    /\ lim_elapsed \in 0 .. min_interval(c.rate)
    /\ sleep_left = [ t \in Tasks |-> 0 ]
    /\ granted = {}
    /\ sinceGrant = min_interval(c.rate)
    /\ seen_pages = {}
    /\ page_url = c.search_url
    /\ page_count = 0
    /\ total_articles = 0
    /\ article_urls = << >>
    /\ listFetched = [ p \in Pages |-> 0 ]
    /\ artFetched = {}
    /\ rows = << >>
    /\ db_lock = NoTask
    /\ cached = [ u \in Urls |-> None ]
    /\ zh = [ u \in Urls |-> None ]
    /\ progress = 0
    /\ writes = [ u \in Urls |-> 0 ]
    /\ remoteCalls = {}
    /\ everSkipped = FALSE
    /\ halt = "running"
    /\ lastItem = NoItem
    /\ ops = 0
    /\ repeated = FALSE

Init ==
    /\ cmd \in {"crawl", "translate"}
    /\ cfg \in IF cmd = "crawl" THEN CrawlCfgs ELSE TranslateCfgs
    /\ web \in IF cmd = "crawl" THEN Webs
               ELSE { [ p1 |-> NoPage, p2 |-> NoPage, p3 |-> NoPage ] }
    /\ db \in IF cmd = "crawl" THEN CrawledStores(3)
              ELSE UNION { TranslatedStores(d) : d \in CrawledStores(3) }
    /\ InitRun(cfg)
    /\ doc = BlankHtml
    /\ extracted = NoFields

Next ==
    \/ CrawlStart
    \/ ListingResponse
    \/ \E u \in Urls : HandleArticleStart(u)
    \/ \E u \in Urls : ArticleResponse(u)
    \/ GatherDone
    \/ GatherRaise
    \/ TranslateStart
    \/ \E u \in Urls : ProcessRowStart(u)
    \/ \E u \in Urls : RemoteResponse(u)
    \/ \E u \in Urls : SemWake(u)
    \/ \E t \in Tasks : LimWake(t)
    \/ \E t \in Tasks : SleepDone(t)
    \/ Tick

Spec == Init /\ [][Next]_vars

-----------------------------------------------------------------------------
(* Progress.  The event loop runs every task that is ready, time advances, and
   every request that was issued gets its response (or its error); crawls run
   without page or article limit over every way the next-page links of the
   listing pages can be set. *)

RECURSIVE Reach(_, _, _)
\* the listing pages on the next-page chain of site w from page p
Reach(w, p, visited) ==
    IF p = NoPage \/ p \in visited THEN visited
    ELSE Reach(w, w[p], visited \cup {p})

\* every setting of the next-page links along the chain from the start page;
\* a page the chain does not reach has no link
LiveWebs ==
    { w \in [ Pages -> Pages \cup {NoPage} ] :
        \A p \in Pages \ Reach(w, "p1", {}) : w[p] = NoPage }

LiveInit ==
    /\ cmd \in {"crawl", "translate"}
    /\ cfg \in IF cmd = "crawl"
                THEN { c \in CrawlCfgs : c.max_pages = 0 /\ c.limit_articles = 0
                                          /\ c.resume }
                ELSE TranslateCfgs
    /\ web \in IF cmd = "crawl" THEN LiveWebs
               ELSE { [ p1 |-> NoPage, p2 |-> NoPage, p3 |-> NoPage ] }
    /\ db \in IF cmd = "crawl" THEN { << >> }
              ELSE UNION { TranslatedStores(d) :
                             d \in { e \in CrawledStores(3) : Len(e) = 3 } }
    /\ InitRun(cfg)
    /\ doc = BlankHtml
    /\ extracted = NoFields

Fairness ==
    /\ WF_vars(CrawlStart)
    /\ WF_vars(ListingResponse)
    /\ WF_vars(GatherDone)
    /\ WF_vars(GatherRaise)
    /\ WF_vars(TranslateStart)
    /\ WF_vars(Tick)
    /\ \A u \in Urls : WF_vars(HandleArticleStart(u))
    /\ \A u \in Urls : WF_vars(ArticleResponse(u))
    /\ \A u \in Urls : WF_vars(ProcessRowStart(u))
    /\ \A u \in Urls : WF_vars(RemoteResponse(u))
    /\ \A u \in Urls : WF_vars(SemWake(u))
    /\ \A t \in Tasks : WF_vars(LimWake(t))
    /\ \A t \in Tasks : WF_vars(SleepDone(t))

SpecLive == LiveInit /\ [][Next]_vars /\ Fairness

-----------------------------------------------------------------------------
(* The store under successive crawl passes: handle_article run to its end on
   one article, for any fields the extractor may hand over. *)

StoreUrls == { 1, 2 }

\* what extract_fields / extract_fields_cvf return for some fetched page
StoreFields ==
    { [ title |-> None, journal |-> None, published_date |-> None,
        abstract_en |-> None ],
      [ title |-> << " " >>, journal |-> << "j" >>, published_date |-> None,
        abstract_en |-> << >> ],
      [ title |-> << "t" >>, journal |-> None, published_date |-> << "d" >>,
        abstract_en |-> << " ", "a" >> ],
      [ title |-> << "s" >>, journal |-> << "j" >>, published_date |-> << "d" >>,
        abstract_en |-> << "b" >> ],
      [ title |-> None, journal |-> << "k" >>, published_date |-> None,
        abstract_en |-> << "a" >> ] }

StoreInit ==
    /\ cmd = "store"
    /\ cfg \in { c \in CrawlCfgs : c.max_pages = 0 /\ c.limit_articles = 0
                                  /\ c.concurrency = 0 /\ c.rate = 0 }
    /\ web = [ p1 |-> NoPage, p2 |-> NoPage, p3 |-> NoPage ]
    /\ db = << >>
    /\ InitRun(cfg)
    /\ doc = BlankHtml
    /\ extracted = NoFields

\* crawler.py:126-155 without its suspension: the resume test, then the upsert
\* of the item built from the fields
StoreCrawl(u, fields, at) ==
    /\ cmd = "store"
    /\ ops < MaxOps
    /\ IF cfg.resume /\ has_abstract_en(db, u)
       THEN UNCHANGED << db, storeVars >>
       ELSE LET item == ArticleItem(u, cfg.search_url, fields, at)
            IN  /\ db' = upsert_article(db, item)
                /\ lastItem' = item
                /\ ops' = ops + 1
                /\ repeated' = (item = lastItem)
    /\ UNCHANGED << constVars, extractVars, pc, semVars, limVars, granted, sinceGrant, reqVars,
                    crawlVars, trVars, halt >>

\* main.py:102-130: one unit of a translation pass over the store, run to its
\* end: the cache lookup, the cached value or else the remote call, the update
StoreTranslate(u, at) ==
    /\ cmd = "store"
    /\ LET sel == SelectRows(db, 0)
       IN  \E k \in 1 .. Len(sel) :
             /\ sel[k].article_url = u
             /\ LET r           == sel[k]
                    abstract_en == Or(clean_text(r.abstract_en), << >>)
                    h           == Or(r.abstract_en_hash, sha256_text(abstract_en))
                IN  /\ ~Falsy(abstract_en)
                    /\ \E c \in get_cached_translation(db, h) :
                         IF ~Falsy(c)
                         THEN db' = update_translation(db, u, c, at)
                         ELSE \E out \in RemoteOut(abstract_en) :
                                db' = update_translation(db, u,
                                          Or(clean_text(out), out), at)
    /\ UNCHANGED << constVars, extractVars, storeVars, pc, semVars, limVars, granted,
                    sinceGrant, reqVars, crawlVars, trVars, halt >>

StoreNext ==
    \/ \E u \in StoreUrls, fields \in StoreFields, at \in NowIso :
         StoreCrawl(u, fields, at)
    \/ \E u \in StoreUrls, at \in NowIso : StoreTranslate(u, at)

SpecStore == StoreInit /\ [][StoreNext]_vars

-----------------------------------------------------------------------------
(* The field extractor on its own: extract_fields applied to one page of the
   generic family, for every combination of the places it reads. *)

Docs ==
    { [ BlankHtml EXCEPT !.ld_abstract = a, !.ld_description = d,
                         !.citation_abstract = c, !.dc_description = e,
                         !.og_description = g, !.description = f,
                         !.dom_heading = dm[1], !.dom_paras = dm[2],
                         !.ld_headline = t, !.ld_name = n,
                         !.citation_title = v, !.page_title = u ] :
        a  \in { None, << >>, << " " >>, << " ", "a" >> },
        d  \in { None, << "d" >> },
        c  \in { None, << " " >>, << "c" >> },
        e  \in { None, << "e" >> },
        g  \in { None, << "g" >> },
        f  \in { None, << " " >>, << "f" >> },
        dm \in { << FALSE, << >> >>, << TRUE, << << " " >> >> >>,
                 << TRUE, << << "b" >>, << " " >>, << "b" >> >> >> },
        t  \in { None, << "t" >> },
        n  \in { None, << "n" >> },
        v  \in { None, << "v" >> },
        u  \in { None, << >>, << "u" >> } }

ExtractInit ==
    /\ cmd = "extract"
    /\ cfg \in { c \in CrawlCfgs : c.max_pages = 0 /\ c.limit_articles = 0
                                  /\ c.concurrency = 0 /\ c.rate = 0 /\ ~c.resume }
    /\ web = [ p1 |-> NoPage, p2 |-> NoPage, p3 |-> NoPage ]
    /\ db = << >>
    /\ InitRun(cfg)
    /\ doc \in Docs
    /\ extracted = NoFields

\* crawler.py:142: fields = extract_fields(html)
Extract ==
    /\ cmd = "extract"
    /\ ~extracted.called
    /\ extracted' = extract_fields(doc) @@ [ called |-> TRUE ]
    /\ UNCHANGED << constVars, doc, db, storeVars, pc, semVars, limVars, granted,
                    sinceGrant, reqVars, crawlVars, trVars, halt >>

ExtractNext == Extract

SpecExtract == ExtractInit /\ [][ExtractNext]_vars

RowUrls == { rows[i].article_url : i \in 1 .. Len(rows) }

ZhOf(u) == db[CHOOSE i \in 1 .. Len(db) : db[i].article_url = u].abstract_zh

\* a row outside this run's selection already carries a translation for hash h
CachedBefore(h) ==
    \E i \in 1 .. Len(db) :
        /\ db[i].article_url \notin RowUrls
        /\ db[i].abstract_en_hash = h
        /\ ~Falsy(db[i].abstract_zh)

\* C1: in one translation run, two pending records with the same abstract_en and
\* no translation cached beforehand cause exactly one remote call, and both end
\* with the same abstract_zh.
C1_OneRemoteCallPerHash ==
    cmd = "translate" =>
      \A i, j \in 1 .. Len(rows) :
        ( /\ i # j
          /\ rows[i].abstract_en = rows[j].abstract_en
          /\ ~CachedBefore(rows[i].abstract_en_hash) )
        => /\ ~({ rows[i].article_url, rows[j].article_url } \subseteq remoteCalls)
           /\ halt = "complete" =>
                ZhOf(rows[i].article_url) = ZhOf(rows[j].article_url)

\* C2: in crawl, a failed article fetch aborts neither the sibling units nor the
\* page loop.
C2_ArticleFailureIsolated ==
    cmd = "crawl" =>
      \A u \in Urls :
        pc[u] = "failed" =>
          /\ pc[Main] # "crashed"
          /\ \A v \in Urls : pc[v] # "cancelled"

\* C3: with an article limit L > 0, a first page exposing more than L links and
\* resume skipping nothing, exactly L units are dispatched and no further listing
\* page is fetched.
C3_QuotaHaltsBeforeNextListing ==
    ( /\ cmd = "crawl"
      /\ cfg.limit_articles > 0
      /\ Len(parse_article_links(cfg.search_url)) > cfg.limit_articles
      /\ ~everSkipped )
    => /\ page_count = 1 /\ pc[Main] = "gather" =>
             Len(article_urls) = cfg.limit_articles
       /\ \A p \in Pages \ {cfg.search_url} : listFetched[p] = 0

RECURSIVE Chain(_, _)
\* the listing pages on the next-page chain from p
Chain(p, visited) ==
    IF p = NoPage \/ p \in visited THEN visited
    ELSE Chain(web[p], visited \cup {p})

RECURSIVE ChainCycles(_, _)
ChainCycles(p, visited) ==
    IF p = NoPage THEN FALSE
    ELSE IF p \in visited THEN TRUE
    ELSE ChainCycles(web[p], visited \cup {p})

FetchError == halt \in {"listing_error", "unit_error"}

\* C4: on a pagination chain with a cycle and no limits, every listing URL is
\* fetched at most once, and a run without fetch errors ends normally on the
\* repeated URL with every page of the chain fetched exactly once.
C4_CycleHalts ==
    ( cmd = "crawl" /\ cfg.max_pages <= 0 /\ cfg.limit_articles <= 0
      /\ ChainCycles(cfg.search_url, {}) )
    => /\ \A p \in Pages : listFetched[p] <= 1
       /\ halt = "cycle" =>
            /\ pc[Main] = "done"
            /\ page_url \in seen_pages
            /\ listFetched[page_url] = 1
       /\ (Ended /\ ~FetchError) =>
            /\ halt = "cycle"
            /\ \A p \in Pages :
                 listFetched[p] = IF p \in Chain(cfg.search_url, {}) THEN 1 ELSE 0

C4_Witness ==
    /\ cmd = "crawl" /\ cfg.max_pages <= 0 /\ cfg.limit_articles <= 0
    /\ web["p3"] = "p1"
    /\ halt = "cycle"
    /\ page_url = "p1"
    /\ \A p \in Pages : listFetched[p] = 1

StoredAbstract(u) ==
    \E i \in 1 .. Len(db) :
        db[i].article_url = u /\ db[i].abstract_en \notin { None, << >> }

OnFetchPath == { "wait_sem", "wait_lim", "sleeping", "fetching" }

\* C5: with resume, a unit whose URL has a non-empty stored abstract_en when it
\* starts ends at once, without a fetch and without a write; any other unit
\* heads for the fetch, and only such a unit ever issues a GET.
C5_ResumeSkip ==
    [][ cmd = "crawl" =>
          \A u \in Urls :
            /\ (pc[u] = "start" /\ pc'[u] \notin {"start", "cancelled"}) =>
                 IF cfg.resume /\ StoredAbstract(u)
                 THEN /\ pc'[u] = "done"
                      /\ db' = db
                      /\ u \notin artFetched'
                      /\ listFetched' = listFetched
                 ELSE pc'[u] \in OnFetchPath
            /\ (u \in artFetched' /\ u \notin artFetched) =>
                 /\ pc'[u] = "fetching"
                 /\ pc[u] \in {"start"} \cup OnFetchPath
                 /\ pc[u] = "start" => ~(cfg.resume /\ StoredAbstract(u))
      ]_vars

C5_Witness ==
    /\ cmd = "crawl" /\ cfg.resume
    /\ \E u, v \in Urls :
         /\ pc[u] = "done" /\ u \notin artFetched /\ StoredAbstract(u)
         /\ v \in artFetched /\ pc[v] = "fetching"
         /\ \E i \in 1 .. Len(db) : db[i].article_url = v /\ db[i].abstract_en = None

\* wait() returns for some task in this step
GrantStep ==
    \/ \E t \in Tasks : t \in granted' /\ t \notin granted
    \/ sinceGrant' = 0 /\ sinceGrant # 0

\* C6: with a rate R > 0, whenever wait() returns, at least 1/R has passed since
\* its previous return, whoever the callers are.
C6_GrantSpacing ==
    [][ (cfg.rate > 0 /\ GrantStep) => sinceGrant >= TicksPerSec \div cfg.rate ]_vars

C6_Witness ==
    /\ cfg.rate > 0
    /\ cmd = "crawl"
    /\ listFetched[cfg.search_url] = 1
    /\ Cardinality(granted) = 2
    /\ sinceGrant = 0
    /\ \E u \in Urls : pc[u] = "wait_sem"

InSemSection == { u \in Urls : pc[u] \in {"wait_lim", "sleeping", "fetching"} }

\* C7: at every moment at most max(1, C) units are between acquiring and
\* releasing the semaphore.
C7_ConcurrencyCeiling ==
    Cardinality(InSemSection) <= (IF cfg.concurrency > 1 THEN cfg.concurrency ELSE 1)

C7_Witness ==
    /\ cfg.concurrency = 2
    /\ Cardinality(InSemSection) = 2
    /\ \E u \in Urls : pc[u] = "wait_sem"

\* C8: every fetch of a crawl, of a listing page or of an article page, is
\* issued holding the semaphore and a limiter grant.
C8_EveryFetchHoldsSem ==
    cmd = "crawl" =>
      \A t \in Tasks : pc[t] = "fetching" => (t \in semHeld /\ t \in granted)

\* C8 as amended: every article fetch first acquires the semaphore and then a
\* limiter grant; a listing fetch acquires a limiter grant only, and is issued
\* while no unit is between start and end.
C8_FetchDiscipline ==
    cmd = "crawl" =>
      /\ \A u \in Urls :
           /\ pc[u] = "fetching" => (u \in semHeld /\ u \in granted)
           /\ pc[u] \in {"wait_lim", "sleeping"} => (u \in semHeld /\ u \notin granted)
           /\ u \in granted => u \in semHeld
      /\ pc[Main] = "fetching" =>
           /\ Main \in granted /\ Main \notin semHeld
           /\ \A u \in Urls : pc[u] \in {"idle", "done"}
      /\ pc[Main] \in {"wait_lim", "sleeping"} => Main \notin granted

C8_Witness ==
    /\ cmd = "crawl"
    /\ listFetched[cfg.search_url] = 1
    /\ \E u \in Urls : pc[u] = "fetching" /\ u \in semHeld /\ u \in granted
    /\ \E u \in Urls : pc[u] = "sleeping" /\ u \in semHeld

RowOfUrl(d, u) == d[CHOOSE i \in 1 .. Len(d) : d[i].article_url = u]

\* C9: an upsert never turns a non-null, non-empty field of a stored record
\* null or empty, and changes a field only to the incoming value, which is then
\* itself non-null and non-empty.
C9_NoNullOverwrite ==
    [][ ops' = ops + 1 =>
          /\ Len(db') >= Len(db)
          /\ \A i \in 1 .. Len(db) :
               /\ db'[i].article_url = db[i].article_url
               /\ \A c \in Cols :
                    /\ db[i][c] \notin { None, << >> } => db'[i][c] \notin { None, << >> }
                    /\ db'[i][c] # db[i][c] =>
                         /\ db[i].article_url = lastItem'.article_url
                         /\ c \in DOMAIN lastItem'
                         /\ lastItem'[c] = db'[i][c]
                         /\ lastItem'[c] \notin { None, << >> }
      ]_vars

C9_Witness ==
    /\ ops >= 2
    /\ lastItem.title = None /\ lastItem.abstract_en = None
    /\ RowOfUrl(db, lastItem.article_url).title # None
    /\ RowOfUrl(db, lastItem.article_url).abstract_en # None
    /\ RowOfUrl(db, lastItem.article_url).crawled_at = lastItem.crawled_at

UniqueUrls ==
    \A i, j \in 1 .. Len(db) : db[i].article_url = db[j].article_url => i = j

\* C10: applying to the store the record that was applied last leaves the store
\* as it is, and the store never holds two records for one article_url.
C10_UpsertIdempotent ==
    /\ []UniqueUrls
    /\ [][ (ops' = ops + 1 /\ lastItem' = lastItem) => db' = db ]_vars

C10_Witness ==
    /\ repeated
    /\ ops >= 2
    /\ Cardinality(RowIdx(db, lastItem.article_url)) = 1
    /\ lastItem.abstract_en # None

\* the texts that are a translation of en
TranslationsOf(en) == { Or(clean_text(out), out) : out \in RemoteOut(en) } \ { << >> }

\* C11: over crawl passes (with or without resume, re-crawls with a different
\* or a missing abstract included) and translation passes, every record has
\* abstract_en_hash exactly when it has abstract_en, and the hash is the hash of
\* the record's current abstract_en.
C11_HashMatchesAbstract ==
    \A i \in 1 .. Len(db) :
        /\ Falsy(db[i].abstract_en_hash) <=> Falsy(db[i].abstract_en)
        /\ ~Falsy(db[i].abstract_en) =>
              db[i].abstract_en_hash = sha256_text(db[i].abstract_en)

C11_Witness ==
    /\ ops = 3
    /\ lastItem.abstract_en = None
    /\ \E i \in 1 .. Len(db) :
         /\ db[i].article_url = lastItem.article_url
         /\ db[i].abstract_en = << "b" >>
         /\ db[i].abstract_en_hash = sha256_text(<< "b" >>)
         /\ db[i].abstract_zh \in TranslationsOf(<< "a" >>)

\* C12: when the fetch of a listing page fails the traversal is over: the main
\* coroutine has left crawl, no unit of the failed page exists, and from then on
\* no listing page and no article is fetched and the store stays as it was
\* when the failure happened.
C12_ListingFailureAborts ==
    /\ [](halt = "listing_error" =>
            /\ pc[Main] = "crashed"
            /\ artFetched = {}
            /\ \A u \in Urls : pc[u] \in {"idle", "done"})
    /\ [][ halt' = "listing_error" =>
             /\ db' = db
             /\ listFetched' = listFetched
             /\ artFetched' = artFetched
             /\ halt = "listing_error" => pc' = pc ]_vars

C12_Witness ==
    /\ halt = "listing_error"
    /\ page_url = "p2"
    /\ total_articles = 3
    /\ Len(db) = 3
    /\ listFetched = [ p \in Pages |-> IF p = "p3" THEN 0 ELSE 1 ]

UnitsAtRest == \A u \in Urls : pc[u] \in {"idle", "done"}

\* C13: the main coroutine leaves the join of a page, resolves its next-page
\* link and requests the next listing page only when every unit dispatched for
\* the page has finished; while it is on its way to a listing fetch, or in
\* one, no unit is unfinished.
C13_PageJoin ==
    /\ [](cmd = "crawl" /\ pc[Main] \in {"wait_lim", "sleeping", "fetching"}
            => UnitsAtRest)
    /\ [][ ( /\ cmd = "crawl"
             /\ \/ pc[Main] = "gather" /\ pc'[Main] \notin {"gather", "crashed"}
                \/ page_url' # page_url
                \/ seen_pages' # seen_pages
                \/ listFetched' # listFetched )
           => UnitsAtRest ]_vars

C13_Witness ==
    /\ cmd = "crawl"
    /\ pc[Main] = "fetching"
    /\ page_url = "p2"
    /\ listFetched["p2"] = 1
    /\ cfg.concurrency = 2
    /\ total_articles = 2
    /\ everSkipped
    /\ \A u \in Urls : pc[u] = "done"

Nonblank(x) == x # None /\ clean_text(x) # None

\* the first text of a sequence of places that is not blank once normalised
RECURSIVE FirstNonblank(_)
FirstNonblank(xs) ==
    IF xs = << >> THEN None
    ELSE IF Nonblank(Head(xs)) THEN clean_text(Head(xs))
    ELSE FirstNonblank(Tail(xs))

\* what the stages yield for the page: structured data, declared metadata
StructuredAbstract ==
    clean_text(IF doc.ld_abstract \in { None, << >> } THEN doc.ld_description
               ELSE doc.ld_abstract)

DeclaredAbstract ==
    FirstNonblank(<< doc.citation_abstract, doc.dc_description,
                     doc.og_description, doc.description >>)

\* C14: for a page of the generic family the abstract is the structured-data
\* value when that is not blank, whatever the metadata tags and the DOM say;
\* else the declared-metadata value when that is not blank; and the text under
\* the "abstract" heading only when both stages yield nothing.
C14_AbstractStageOrder ==
    extracted.called =>
      /\ Nonblank(doc.ld_abstract) =>
            extracted.abstract_en = clean_text(doc.ld_abstract)
      /\ StructuredAbstract # None => extracted.abstract_en = StructuredAbstract
      /\ (StructuredAbstract = None /\ DeclaredAbstract # None) =>
            extracted.abstract_en = DeclaredAbstract
      /\ (StructuredAbstract = None /\ DeclaredAbstract = None) =>
            extracted.abstract_en =
              IF ~doc.dom_heading THEN None
              ELSE FirstNonblank(<< join(SelectSeq(
                       [ i \in 1 .. Len(doc.dom_paras) |-> clean_text(doc.dom_paras[i]) ],
                       LAMBDA x : x # None)) >>)

C14_Witness ==
    /\ extracted.called
    /\ doc.ld_abstract = << " ", "a" >>
    /\ doc.citation_abstract = << "c" >>
    /\ doc.dom_heading
    /\ extracted.abstract_en = << "a" >>

ListingFetches == listFetched["p1"] + listFetched["p2"] + listFetched["p3"]

\* C15: with max_pages > 0 a crawl issues at most max_pages listing fetches and
\* dispatches units only for one of the first max_pages pages; with
\* max_pages <= 0 the crawl never stops for the page limit.
C15_MaxPages ==
    /\ [](cmd = "crawl" =>
            /\ cfg.max_pages > 0 => ListingFetches <= cfg.max_pages
            /\ cfg.max_pages <= 0 => halt # "max_pages")
    /\ [][ ( /\ cmd = "crawl" /\ cfg.max_pages > 0
             /\ \E u \in Urls : pc'[u] = "start" /\ pc[u] # "start" )
           => /\ page_count' <= cfg.max_pages
              /\ ListingFetches <= cfg.max_pages ]_vars

C15_Witness ==
    /\ cmd = "crawl"
    /\ cfg.max_pages = 2
    /\ halt = "max_pages"
    /\ page_url = "p3"
    /\ page_count = 3
    /\ listFetched = [ p \in Pages |-> IF p = "p3" THEN 0 ELSE 1 ]

\* the units created in this step
Dispatched == { u \in Urls : pc'[u] = "start" /\ pc[u] # "start" }

\* C16: with limit_articles = L > 0 the units dispatched for a page are the
\* first L - total_articles of the page's sorted candidates, and total_articles
\* never exceeds L; with L <= 0 every candidate is dispatched.
C16_QuotaTruncation ==
    /\ [](cmd = "crawl" /\ cfg.limit_articles > 0 =>
            total_articles <= cfg.limit_articles)
    /\ [][ (cmd = "crawl" /\ Dispatched # {}) =>
             LET links == parse_article_links(page_url)
                 room  == cfg.limit_articles - total_articles
                 n     == IF cfg.limit_articles <= 0 \/ room >= Len(links)
                          THEN Len(links) ELSE room
             IN  /\ n > 0
                 /\ article_urls' = [ i \in 1 .. n |-> links[i] ]
                 /\ Dispatched = { links[i] : i \in 1 .. n }
                 /\ \A i, j \in 1 .. Len(links) : i < j => links[i] < links[j] ]_vars

C16_Witness ==
    /\ cmd = "crawl"
    /\ cfg.limit_articles = 2
    /\ page_count = 2
    /\ pc[Main] = "gather"
    /\ article_urls = << 1 >>
    /\ total_articles = 1

\* the non-empty translations stored with the hash of u's record
CacheHits(u) ==
    { db[i].abstract_zh : i \in { j \in 1 .. Len(db) :
        /\ db[j].abstract_en_hash = RowOfUrl(db, u).abstract_en_hash
        /\ ~Falsy(db[j].abstract_zh) } }

\* C17: a translation unit that starts while some record with its hash carries
\* a non-empty abstract_zh ends in that step: no remote call, no semaphore, no
\* limiter grant, and its record gets one of those stored translations.
C17_CacheHitNoRemoteCall ==
    [][ cmd = "translate" =>
          \A u \in Urls :
            ( /\ pc[u] = "start" /\ pc'[u] \notin {"start", "cancelled"}
              /\ CacheHits(u) # {} )
            => /\ pc'[u] = "done"
               /\ u \notin remoteCalls'
               /\ u \notin semHeld' /\ sem' = sem
               /\ u \notin granted'
               /\ UNCHANGED << lim_lock, lim_elapsed, sleep_left, sinceGrant >>
               /\ RowOfUrl(db', u).abstract_zh \in CacheHits(u)
      ]_vars

C17_Witness ==
    /\ cmd = "translate"
    /\ \E u, v \in RowUrls :
         /\ pc[u] = "done"
         /\ u \notin remoteCalls
         /\ ~Falsy(cached[u])
         /\ ZhOf(u) = cached[u]
         /\ v \in remoteCalls
         /\ ZhOf(v) = cached[u]
         /\ cached[v] = None

\* C18: every non-empty abstract_zh in the store is a translation of the
\* current abstract_en of its record, and a cache lookup by a record's hash
\* returns nothing or a translation of that record's abstract_en.
C18_ZhTranslatesCurrentAbstract ==
    \A i \in 1 .. Len(db) :
        /\ ~Falsy(db[i].abstract_zh) =>
              /\ ~Falsy(db[i].abstract_en)
              /\ db[i].abstract_zh \in TranslationsOf(db[i].abstract_en)
        /\ ~Falsy(db[i].abstract_en) =>
              \A c \in get_cached_translation(db, db[i].abstract_en_hash) :
                  c = None \/ c \in TranslationsOf(db[i].abstract_en)

\* C19: in a translation pass a step changes at most the abstract_zh and
\* translated_at of the record of the unit that takes the step; every other
\* field and every other record stays, and no record appears or disappears.
C19_TranslationFrame ==
    [][ cmd = "translate" =>
          /\ Len(db') = Len(db)
          /\ \A i \in 1 .. Len(db) :
               /\ \A c \in (Cols \cup {"article_url"}) \ {"abstract_zh", "translated_at"} :
                    db'[i][c] = db[i][c]
               /\ db'[i] # db[i] =>
                    /\ pc[db[i].article_url] \in {"start", "fetching"}
                    /\ pc'[db[i].article_url] = "done"
                    /\ \A j \in 1 .. Len(db) : j # i => db'[j] = db[j]
      ]_vars

C19_Witness ==
    /\ cmd = "translate"
    /\ halt = "complete"
    /\ progress = 2
    /\ Len(db) = 3
    /\ remoteCalls # {}
    /\ \E i, j \in 1 .. Len(db) :
         /\ db[i].translated_at = << "t", "2" >> /\ ~Falsy(db[i].abstract_zh)
         /\ db[j].translated_at = None /\ db[j].abstract_zh = None

\* C20: for a page of the generic family the title is the structured-data
\* headline or name when not blank, else the citation_title tag when not blank,
\* and the page <title> only when both yield nothing.
C20_TitleStageOrder ==
    extracted.called =>
      extracted.title = FirstNonblank(<< doc.ld_headline, doc.ld_name,
                                         doc.citation_title, doc.page_title >>)

\* the units of a translation run whose remote call is in flight
RemoteInFlight == { u \in Urls : cmd = "translate" /\ pc[u] = "fetching" }

\* C21: in a translation run db_lock is free whenever a unit is suspended, in
\* particular while a remote call is in flight, so a unit waiting for the
\* semaphore, the limiter or its remote call never keeps another unit from the
\* cache read or the persist step.
C21_LockFreeDuringRemoteCall ==
    cmd = "translate" =>
      /\ RemoteInFlight # {} => db_lock = NoTask
      /\ \A u \in Urls :
           pc[u] \in {"wait_sem", "wait_lim", "sleeping", "fetching"} => db_lock # u

C21_Witness ==
    /\ cmd = "translate"
    /\ db_lock = NoTask
    /\ \E u, v \in RemoteInFlight :
         /\ RowOf(u).abstract_en_hash # RowOf(v).abstract_en_hash
         /\ cached[u] = None /\ cached[v] = None
    /\ \E w \in Urls : pc[w] = "done" /\ writes[w] = 1

\* the positions in the store of the records awaiting translation
PendingIdx ==
    { i \in 1 .. Len(db) : ~Falsy(db[i].abstract_en) /\ Falsy(db[i].abstract_zh) }

\* C22: a translation run selects the records with a non-empty abstract_en and
\* an empty abstract_zh, in creation order, the first max_items of them when
\* max_items > 0; no record is written twice, and a run that completes has
\* written abstract_zh and translated_at of every selected record exactly once,
\* of no other record, and has counted as many as it selected.
C22_SelectionAndCompletion ==
    /\ [][ (cmd = "translate" /\ pc[Main] = "init" /\ pc'[Main] # "init") =>
             LET n == IF cfg.max_items > 0 /\ cfg.max_items < Cardinality(PendingIdx)
                      THEN cfg.max_items ELSE Cardinality(PendingIdx)
             IN  /\ Len(rows') = n
                 /\ \A k \in 1 .. n :
                      \E i \in PendingIdx :
                        /\ Cardinality({ j \in PendingIdx : j < i }) = k - 1
                        /\ rows'[k] = db[i]
                 /\ { u \in Urls : pc'[u] = "start" }
                      = { rows'[k].article_url : k \in 1 .. n } ]_vars
    /\ [](cmd = "translate" => \A u \in Urls : writes[u] <= 1)
    /\ [](cmd = "translate" /\ halt = "complete" =>
            /\ progress = Len(rows)
            /\ \A u \in Urls : writes[u] = IF u \in RowUrls THEN 1 ELSE 0
            /\ \A u \in RowUrls : RowOfUrl(db, u).translated_at = << "t", "2" >>)

C22_Witness ==
    /\ cmd = "translate"
    /\ halt = "complete"
    /\ cfg.max_items = 1
    /\ Len(rows) = 1
    /\ progress = 1
    /\ PendingIdx # {}
    /\ \E u \in RowUrls : writes[u] = 1 /\ ~Falsy(ZhOf(u))

UnitFinished(u) == pc[u] \in {"done", "failed", "cancelled"}

\* C23: every unit that was dispatched eventually finishes, and the join of a
\* page batch or of the translation batch eventually returns (or raises), for
\* concurrency 1 and 2, with and without a rate, when responses arrive, time
\* advances and ready tasks are run.
C23_UnitsFinish ==
    /\ \A u \in Urls : (pc[u] \in {"start"} \cup OnFetchPath) ~> UnitFinished(u)
    /\ (pc[Main] = "gather") ~> (pc[Main] # "gather")

C23_Witness ==
    /\ cmd = "crawl"
    /\ cfg.rate > 0
    /\ pc[Main] = "gather"
    /\ \E u, v, w \in Urls :
         /\ pc[u] = "wait_sem" /\ sem = 0
         /\ pc[v] = "sleeping" /\ lim_lock = v /\ v \in semHeld
         /\ pc[w] = "done" /\ w \in artFetched

\* C24: without page or article limit, on every setting of the next-page
\* links among the listing pages, crawl makes at most one pass of its loop body
\* per listing URL, fetches no listing URL twice, and eventually ends: normally
\* when every fetch succeeds.
C24_CrawlTerminates ==
    /\ [](cmd = "crawl" =>
            /\ page_count <= Cardinality(Pages)
            /\ page_count = Cardinality(seen_pages)
            /\ \A p \in Pages : listFetched[p] <= 1)
    /\ (cmd = "crawl") ~> (pc[Main] = "done" \/ FetchError)
    /\ (cmd = "crawl") ~> Ended

C24_Witness ==
    /\ cmd = "crawl"
    /\ web = [ p1 |-> "p3", p2 |-> NoPage, p3 |-> "p3" ]
    /\ pc[Main] = "done"
    /\ halt = "cycle"
    /\ page_url = "p3"
    /\ page_count = 2
    /\ listFetched = [ p \in Pages |-> IF p = "p2" THEN 0 ELSE 1 ]

====
